---- MODULE Spec2Model ----
(***************************************************************************)
(* A model of GoGrapher's similarity pipeline (src/src/*.rs):              *)
(*   - the similarity kernel of grapher.rs (instructions, blocks, graphs), *)
(*   - the matcher and the sequential part of compare_graph_sets,          *)
(*   - the parallel workers of Grapher::compare and generate_graphs,       *)
(*   - Disassembly::new, filter_symbol and to_subset.                      *)
(*                                                                         *)
(* Conventions.                                                            *)
(*   f32.  A similarity is a record [n, d]: the fraction n/d, kept in      *)
(*   lowest terms; d = 0 is NaN (the value of 0.0 / 0.0).  Arithmetic is   *)
(*   exact; the f32 comparisons <, >, >=, == are false when a side is NaN, *)
(*   as in Rust.  Rounding of f32 is not modelled.                         *)
(*   Indices.  Rust slices are 0-based, sequences here are 1-based; an     *)
(*   index i of in_refs / out_refs stands for Rust's i - 1.                *)
(*   Hashes.  chibihash over the concatenated instruction bytes is taken   *)
(*   to be collision free: a block's hash is its sequence of instruction   *)
(*   byte-strings, a graph's hash is the sequence of its block hashes.     *)
(***************************************************************************)
EXTENDS Integers, Sequences, FiniteSets, TLC

VARIABLES
    \* similarity kernel: two graphs and the value of compare_graphs
    kpc, ka, kb, kres, kcalls,
    \* one sample against one reference: Grapher::compare(sample, [reference])
    mpc, msample, mref, mthreshold, mreport, mruns,
    \* Grapher::compare with its parallel workers
    cmain, csample, crefs, cthreshold, cpc, clocal, matches_list, creport,
    \* Grapher::generate_graphs with its parallel builds
    gmain, gitems, gpc, glocal, samples_graph, gresult,
    \* Disassembly::new / filter_symbol / to_subset
    dpc, dis, dself, darg,
    \* CompareReport::to_json / from_json
    jpc, jreport, jjson, jback,
    \* Cli::parse_cli
    xpc, xargs, xgraphs, xreport, xstdout, xfile, xexit,
    \* the streamer and the kernel's functions taken alone
    upc, ul, ur, uiter, ures

kvars == <<kpc, ka, kb, kres, kcalls>>
mvars == <<mpc, msample, mref, mthreshold, mreport, mruns>>
cvars == <<cmain, csample, crefs, cthreshold, cpc, clocal, matches_list, creport>>
gvars == <<gmain, gitems, gpc, glocal, samples_graph, gresult>>
dvars == <<dpc, dis, dself, darg>>
jvars == <<jpc, jreport, jjson, jback>>
xvars == <<xpc, xargs, xgraphs, xreport, xstdout, xfile, xexit>>
uvars == <<upc, ul, ur, uiter, ures>>
vars == <<kvars, mvars, cvars, gvars, dvars, jvars, xvars, uvars>>

\* the value of a variable that holds nothing yet, and the position of a part of
\* the program a specification does not run
None == "none"
Off == "off"

-----------------------------------------------------------------------------
(* f32 values *)

RECURSIVE Gcd(_, _)
Gcd(a, b) == IF b = 0 THEN a ELSE Gcd(b, a % b)

\* n / d as f32; 0 / 0 is NaN
Rat(n, d) ==
    IF d = 0 THEN [n |-> 0, d |-> 0]
    ELSE LET g == Gcd(n, d) IN [n |-> n \div g, d |-> d \div g]

NaN == [n |-> 0, d |-> 0]
Zero == [n |-> 0, d |-> 1]
One == [n |-> 1, d |-> 1]

IsNaN(x) == x.d = 0

\* x < y, x > y, x >= y, x == y of f32: false when a side is NaN
F32Lt(x, y) == ~IsNaN(x) /\ ~IsNaN(y) /\ x.n * y.d < y.n * x.d
F32Gt(x, y) == F32Lt(y, x)
F32Ge(x, y) == ~IsNaN(x) /\ ~IsNaN(y) /\ x.n * y.d >= y.n * x.d
F32Eq(x, y) == ~IsNaN(x) /\ ~IsNaN(y) /\ x.n * y.d = y.n * x.d

F32Add(x, y) ==
    IF IsNaN(x) \/ IsNaN(y) THEN NaN
    ELSE Rat(x.n * y.d + y.n * x.d, x.d * y.d)

\* x * k for a small integer constant k
F32Scale(x, k) == IF IsNaN(x) THEN NaN ELSE Rat(x.n * k, x.d)

\* x / (k as f32): 0.0 / 0.0 is NaN
F32DivInt(x, k) == IF IsNaN(x) THEN NaN ELSE Rat(x.n, x.d * k)

\* iter().sum::<f32>() of a sequence of f32, from 0.0
RECURSIVE F32Sum(_)
F32Sum(s) == IF s = <<>> THEN Zero ELSE F32Add(s[1], F32Sum(Tail(s)))

InUnit(x) == ~IsNaN(x) /\ F32Ge(x, Zero) /\ F32Ge(One, x)

-----------------------------------------------------------------------------
(* control_flow_graph.rs *)

\* StreamingChibiHasher over every instruction's bytes (collision free)
BlockHash(instructions) == instructions

BasicBlock_new(offset, instructions) ==
    [offset |-> offset, instructions |-> instructions,
     in_refs |-> <<>>, out_refs |-> <<>>, hash |-> BlockHash(instructions)]

\* StreamingChibiHasher over every block's hash, in block order
GraphHash(blocks) == [i \in 1..Len(blocks) |-> blocks[i].hash]

ControlFlowGraph_new(name, offset, blocks) ==
    [name |-> name, offset |-> offset, blocks |-> blocks, hash |-> GraphHash(blocks)]

-----------------------------------------------------------------------------
(* grapher.rs: InstructionStreamer *)

InstructionStreamer_new(blocks, indices) == [blocks |-> blocks, indices |-> indices]

RECURSIVE StreamerLenFrom(_, _)
StreamerLenFrom(s, k) ==
    IF k > Len(s.indices) THEN 0
    ELSE Len(s.blocks[s.indices[k]].instructions) + StreamerLenFrom(s, k + 1)

\* InstructionStreamer::len
StreamerLen(s) == StreamerLenFrom(s, 1)

\* The bytes of the instructions a `for` loop over iter() gets, from the k-th
\* listed block on: next() moves to the next listed block when the current one is
\* used up and returns that block's first instruction, which is None, the end of
\* the loop, when that block has no instruction.
RECURSIVE StreamerBytesFrom(_, _)
StreamerBytesFrom(s, k) ==
    IF k > Len(s.indices) THEN <<>>
    ELSE IF s.blocks[s.indices[k]].instructions = <<>> THEN <<>>
    ELSE s.blocks[s.indices[k]].instructions \o StreamerBytesFrom(s, k + 1)

StreamerBytes(s) == StreamerBytesFrom(s, 1)

\* InstructionStreamer::iter: no current block, every index still to come.  `iter`
\* is an Option of the instructions left in the current block, `indices` the
\* indices left.
InstructionStreamer_iter(s) == [iter |-> <<>>, indices |-> s.indices, streamer |-> s]

\* InstructionStreamerIter::next: the iterator after the call and the item it
\* returns, << >> for None.  The next instruction of the current block if there
\* is one; else the first instruction of the next listed block, which becomes
\* the current block (None when that block has no instruction); else None.
InstructionStreamerIter_next(it) ==
    IF it.iter # <<>> /\ it.iter[1] # <<>>
    THEN [it |-> [it EXCEPT !.iter = <<Tail(it.iter[1])>>], item |-> <<it.iter[1][1]>>]
    ELSE IF it.indices # <<>>
    THEN LET instructions == it.streamer.blocks[it.indices[1]].instructions IN
         [it |-> [it EXCEPT !.iter = <<IF instructions = <<>> THEN <<>> ELSE Tail(instructions)>>,
                            !.indices = Tail(it.indices)],
          item |-> IF instructions = <<>> THEN <<>> ELSE <<instructions[1]>>]
    ELSE [it |-> it, item |-> <<>>]

-----------------------------------------------------------------------------
(* grapher.rs: the similarity kernel *)

\* other.iter().position(|x| x == bytes): 0 stands for None
RECURSIVE PositionOf(_, _, _)
PositionOf(other, bytes, i) ==
    IF i > Len(other) THEN 0
    ELSE IF other[i] = bytes THEN i
    ELSE PositionOf(other, bytes, i + 1)

\* Vec::swap_remove(i): the last element takes the place of element i
SwapRemove(v, i) == [k \in 1..(Len(v) - 1) |-> IF k = i THEN v[Len(v)] ELSE v[k]]

\* the loop `for instr in x.iter()` of compare_instructions
RECURSIVE SweepInstructions(_, _, _, _, _)
SweepInstructions(x, k, other, intersection, union) ==
    IF k > Len(x) THEN [other |-> other, intersection |-> intersection, union |-> union]
    ELSE LET i == PositionOf(other, x[k], 1) IN
         IF i # 0
         THEN SweepInstructions(x, k + 1, SwapRemove(other, i), intersection + 1, union + 1)
         ELSE SweepInstructions(x, k + 1, other, intersection, union + 1)

\* the sweep that leaves a matched instruction in `other`
RECURSIVE SweepInstructions_NoRemove(_, _, _, _, _)
SweepInstructions_NoRemove(x, k, other, intersection, union) ==
    IF k > Len(x) THEN [other |-> other, intersection |-> intersection, union |-> union]
    ELSE IF PositionOf(other, x[k], 1) # 0
         THEN SweepInstructions_NoRemove(x, k + 1, other, intersection + 1, union + 1)
         ELSE SweepInstructions_NoRemove(x, k + 1, other, intersection, union + 1)

\* compare_instructions without other.swap_remove(i)
compare_instructions_NoRemove(lhs_ins, rhs_ins) ==
    LET swap == StreamerLen(lhs_ins) > StreamerLen(rhs_ins)
        x == IF swap THEN lhs_ins ELSE rhs_ins
        y == IF swap THEN rhs_ins ELSE lhs_ins
        r == SweepInstructions_NoRemove(StreamerBytes(x), 1, StreamerBytes(y), 0, 0)
        union == r.union + Len(r.other)
    IN IF union = 0 THEN One ELSE Rat(r.intersection, union)

compare_instructions(lhs_ins, rhs_ins) ==
    LET swap == StreamerLen(lhs_ins) > StreamerLen(rhs_ins)
        x == IF swap THEN lhs_ins ELSE rhs_ins
        y == IF swap THEN rhs_ins ELSE lhs_ins
        r == SweepInstructions(StreamerBytes(x), 1, StreamerBytes(y), 0, 0)
        union == r.union + Len(r.other)
    IN IF union = 0 THEN One ELSE Rat(r.intersection, union)

\* compare_blocks with the local similarity counted once
compare_blocks_SingleLocal(l_blocks, l_index, r_blocks, r_index) ==
    LET local_sim ==
            IF l_blocks[l_index].hash = r_blocks[r_index].hash THEN One
            ELSE compare_instructions(InstructionStreamer_new(l_blocks, <<l_index>>),
                                      InstructionStreamer_new(r_blocks, <<r_index>>))
        prev_sim == compare_instructions(
                        InstructionStreamer_new(l_blocks, l_blocks[l_index].in_refs),
                        InstructionStreamer_new(r_blocks, r_blocks[r_index].in_refs))
        next_sim == compare_instructions(
                        InstructionStreamer_new(l_blocks, l_blocks[l_index].out_refs),
                        InstructionStreamer_new(r_blocks, r_blocks[r_index].out_refs))
    IN F32DivInt(F32Add(F32Add(local_sim, prev_sim), next_sim), 4)

compare_blocks(l_blocks, l_index, r_blocks, r_index) ==
    LET local_sim ==
            IF l_blocks[l_index].hash = r_blocks[r_index].hash THEN One
            ELSE compare_instructions(InstructionStreamer_new(l_blocks, <<l_index>>),
                                      InstructionStreamer_new(r_blocks, <<r_index>>))
        l_prev_ins == InstructionStreamer_new(l_blocks, l_blocks[l_index].in_refs)
        r_prev_ins == InstructionStreamer_new(r_blocks, r_blocks[r_index].in_refs)
        l_next_ins == InstructionStreamer_new(l_blocks, l_blocks[l_index].out_refs)
        r_next_ins == InstructionStreamer_new(r_blocks, r_blocks[r_index].out_refs)
        prev_sim == compare_instructions(l_prev_ins, r_prev_ins)
        next_sim == compare_instructions(l_next_ins, r_next_ins)
    IN F32DivInt(F32Add(F32Add(F32Scale(local_sim, 2), prev_sim), next_sim), 4)

\* the inner loop of compare_graphs: the running maximum over the target's blocks
RECURSIVE BestAgainst(_, _, _, _, _)
BestAgainst(l_blocks, l_index, r_blocks, r_index, current_sim) ==
    IF r_index > Len(r_blocks) THEN current_sim
    ELSE LET similarity == compare_blocks(l_blocks, l_index, r_blocks, r_index) IN
         BestAgainst(l_blocks, l_index, r_blocks, r_index + 1,
                     IF F32Gt(similarity, current_sim) THEN similarity ELSE current_sim)

\* top_sims before the sort: one maximum per source block
TopSims(l_blocks, r_blocks) ==
    [l_index \in 1..Len(l_blocks) |-> BestAgainst(l_blocks, l_index, r_blocks, 1, Zero)]

\* insertion of x into a sequence sorted in descending order
RECURSIVE InsertDesc(_, _)
InsertDesc(x, s) ==
    IF s = <<>> THEN <<x>>
    ELSE IF F32Lt(x, s[1]) THEN <<s[1]>> \o InsertDesc(x, Tail(s))
    ELSE <<x>> \o s

\* sort_unstable_by(|x, y| x.total_cmp(y).reverse())
RECURSIVE SortDesc(_)
SortDesc(s) == IF s = <<>> THEN <<>> ELSE InsertDesc(s[1], SortDesc(Tail(s)))

Min(a, b) == IF a < b THEN a ELSE b

\* compare_graphs averaging over every source block instead of the best
\* min(|source|, |target|) of them
compare_graphs_NoTrim(source_graph, target_graph) ==
    IF source_graph.hash = target_graph.hash THEN One
    ELSE LET l_blocks == source_graph.blocks
             r_blocks == target_graph.blocks
             top_sims == SortDesc(TopSims(l_blocks, r_blocks))
         IN F32DivInt(F32Sum(top_sims), Len(l_blocks))

\* compare_graphs without the shortcut on equal hashes
compare_graphs_NoHash(source_graph, target_graph) ==
    LET l_blocks == source_graph.blocks
        r_blocks == target_graph.blocks
        top_sims == SortDesc(TopSims(l_blocks, r_blocks))
        sample_size == Min(Len(l_blocks), Len(r_blocks))
    IN F32DivInt(F32Sum(SubSeq(top_sims, 1, sample_size)), sample_size)

\* compare_graphs taking the first min(|source|, |target|) entries of top_sims as
\* the loops leave them, without the sort
compare_graphs_Unsorted(source_graph, target_graph) ==
    IF source_graph.hash = target_graph.hash THEN One
    ELSE LET l_blocks == source_graph.blocks
             r_blocks == target_graph.blocks
             top_sims == TopSims(l_blocks, r_blocks)
             sample_size == Min(Len(l_blocks), Len(r_blocks))
         IN F32DivInt(F32Sum(SubSeq(top_sims, 1, sample_size)), sample_size)

\* the calls of compare_blocks that compare_graphs makes, as (l_index, r_index)
\* in the order of the two loops: none when the hashes are equal
BlockComparisons(source_graph, target_graph) ==
    IF source_graph.hash = target_graph.hash THEN <<>>
    ELSE LET l_len == Len(source_graph.blocks)
             r_len == Len(target_graph.blocks)
         IN [n \in 1..(l_len * r_len) |->
                <<((n - 1) \div r_len) + 1, ((n - 1) % r_len) + 1>>]

compare_graphs(source_graph, target_graph) ==
    IF source_graph.hash = target_graph.hash THEN One
    ELSE LET l_blocks == source_graph.blocks
             r_blocks == target_graph.blocks
             top_sims == SortDesc(TopSims(l_blocks, r_blocks))
             sample_size == Min(Len(l_blocks), Len(r_blocks))
         IN F32DivInt(F32Sum(SubSeq(top_sims, 1, sample_size)), sample_size)

-----------------------------------------------------------------------------
(* match.rs, compare_report.rs: the report model *)

Method_new(malware_graph, clean_graph, similarity) ==
    [old_name |-> malware_graph.name, resolved_name |-> clean_graph.name,
     malware_offset |-> malware_graph.offset, clean_offset |-> clean_graph.offset,
     similarity |-> similarity]

\* matches.iter().map(|m| m.similarity)
Similarities(matches) == [i \in 1..Len(matches) |-> matches[i].similarity]

Binary_new(source, dest, matches) ==
    [similarity |-> F32DivInt(F32Sum(Similarities(matches)), Len(matches)),
     source |-> source, dest |-> dest, matches |-> matches]

CompareReport_new(sample_name, matches, compute_time) ==
    [sample_name |-> sample_name, matches |-> matches, compute_time |-> compute_time]

-----------------------------------------------------------------------------
(* grapher.rs: the matcher and compare_graph_sets *)

\* The loop of compare_against_graphs from the k-th sample graph on.  An
\* Option<MethodMatch> is a sequence: << >> is None, <<m>> is Some(m).  `scanned`
\* counts the sample graphs that compare_graphs was called on.
RECURSIVE ScanGraphs(_, _, _, _, _)
ScanGraphs(threshold, reference_graph, graphs, k, current_top) ==
    IF k > Len(graphs) THEN [top |-> current_top, scanned |-> Len(graphs)]
    ELSE LET sample_graph == graphs[k]
             similarity == compare_graphs(reference_graph, sample_graph)
             current_match == Method_new(sample_graph, reference_graph, similarity)
         IN IF F32Lt(similarity, threshold)
            THEN ScanGraphs(threshold, reference_graph, graphs, k + 1, current_top)
            ELSE IF F32Ge(similarity, One)
            THEN [top |-> <<current_match>>, scanned |-> k]
            ELSE IF current_top = <<>>
            THEN ScanGraphs(threshold, reference_graph, graphs, k + 1, <<current_match>>)
            ELSE IF F32Gt(similarity, current_top[1].similarity)
            THEN ScanGraphs(threshold, reference_graph, graphs, k + 1, <<current_match>>)
            ELSE ScanGraphs(threshold, reference_graph, graphs, k + 1, current_top)

MatcherRun(threshold, reference_graph, sample_graphs) ==
    ScanGraphs(threshold, reference_graph, sample_graphs.graphs, 1, <<>>)

\* compare_against_graphs keeping the first function that reaches the threshold
compare_against_graphs_First(threshold, reference_graph, sample_graphs) ==
    LET graphs == sample_graphs.graphs
        reached == {k \in 1..Len(graphs) :
                       ~F32Lt(compare_graphs(reference_graph, graphs[k]), threshold)}
    IN IF reached = {} THEN <<>>
       ELSE LET k == CHOOSE x \in reached : \A y \in reached : x <= y IN
            <<Method_new(graphs[k], reference_graph,
                         compare_graphs(reference_graph, graphs[k]))>>

compare_against_graphs(threshold, reference_graph, sample_graphs) ==
    MatcherRun(threshold, reference_graph, sample_graphs).top

\* filter_map(..).collect(): the Some values, in the order of the reference's graphs
RECURSIVE CollectSome(_)
CollectSome(options) ==
    IF options = <<>> THEN <<>> ELSE options[1] \o CollectSome(Tail(options))

compare_graph_sets(threshold, sample_graphs, reference_graphs) ==
    LET matches == CollectSome(
            [i \in 1..Len(reference_graphs.graphs) |->
                compare_against_graphs(threshold, reference_graphs.graphs[i], sample_graphs)])
    IN Binary_new(sample_graphs.name, reference_graphs.name, matches)

-----------------------------------------------------------------------------
(* disassembly.rs: Disassembly::new, one function of the decoder's report *)

\* blocks.sort_by_key(|a| a.offset) and graphs.sort_by_key(|a| a.offset): stable
RECURSIVE InsertByOffset(_, _)
InsertByOffset(x, s) ==
    IF s = <<>> THEN <<x>>
    ELSE IF x.offset < s[1].offset THEN <<x>> \o s
    ELSE <<s[1]>> \o InsertByOffset(x, Tail(s))

RECURSIVE SortByOffset(_)
SortByOffset(s) ==
    IF s = <<>> THEN <<>>
    ELSE InsertByOffset(s[Len(s)], SortByOffset(SubSeq(s, 1, Len(s) - 1)))

\* block_indices[offset]: the index of the block at that offset
BlockIndex(blocks, offset) == CHOOSE i \in 1..Len(blocks) : blocks[i].offset = offset

\* the loop `for out_ref in out_refs`
RECURSIVE AddOutRefs(_, _, _, _)
AddOutRefs(blocks, block_index, out_refs, k) ==
    IF k > Len(out_refs) THEN blocks
    ELSE LET out_index == BlockIndex(blocks, out_refs[k])
             b1 == [blocks EXCEPT ![block_index].out_refs = Append(@, out_index)]
             b2 == [b1 EXCEPT ![out_index].in_refs = Append(@, block_index)]
         IN AddOutRefs(b2, block_index, out_refs, k + 1)

\* the loop `for (offset, out_refs) in &function.blockrefs`, in iteration order ref_order
RECURSIVE ResolveEdges(_, _, _, _)
ResolveEdges(blocks, blockrefs, ref_order, k) ==
    IF k > Len(ref_order) THEN blocks
    ELSE ResolveEdges(
             AddOutRefs(blocks, BlockIndex(blocks, ref_order[k]), blockrefs[ref_order[k]], 1),
             blockrefs, ref_order, k + 1)

\* One smda function turned into a ControlFlowGraph.  function.blocks maps block
\* offsets to instruction lists, function.blockrefs maps block offsets to out-going
\* block offsets; block_order and ref_order are the iteration orders of the two
\* HashMaps.
BuildGraph(name, fct_offset, function, block_order, ref_order) ==
    LET pushed == [k \in 1..Len(block_order) |->
                      BasicBlock_new(block_order[k], function.blocks[block_order[k]])]
        sorted == SortByOffset(pushed)
        blocks == ResolveEdges(sorted, function.blockrefs, ref_order, 1)
    IN ControlFlowGraph_new(name, fct_offset, blocks)

\* the elements of a set of numbers, ascending
RECURSIVE Ascending(_)
Ascending(S) ==
    IF S = {} THEN <<>>
    ELSE LET m == CHOOSE x \in S : \A y \in S : x <= y IN <<m>> \o Ascending(S \ {m})

-----------------------------------------------------------------------------
(* Inputs of the kernel: the control-flow graphs the decoder can report *)

\* most blocks of a function
KMaxBlocks == 2
\* most edges of a function
KMaxEdges == 1

\* the instruction lists of a block: non-empty (the decoder reports no empty block)
BlockBodies == {<<"A">>, <<"A", "B">>}

RECURSIVE EdgeSets(_, _)
EdgeSets(n, k) ==
    IF k = 0 THEN {{}}
    ELSE LET prev == EdgeSets(n, k - 1) IN
         prev \cup {E \cup {e} : E \in prev, e \in (1..n) \X (1..n)}

BlockRefsOf(E) ==
    [src \in {e[1] : e \in E} |-> Ascending({e[2] : e \in {f \in E : f[1] = src}})]

\* decoder functions with n blocks at offsets 1..n
Functions(n) ==
    {[blocks |-> c, blockrefs |-> BlockRefsOf(E)] :
        c \in [1..n -> BlockBodies], E \in EdgeSets(n, KMaxEdges)}

GraphOf(name, fct_offset, function) ==
    BuildGraph(name, fct_offset, function,
               Ascending(DOMAIN function.blocks), Ascending(DOMAIN function.blockrefs))

Graphs == UNION {{GraphOf("", 0, f) : f \in Functions(n)} : n \in 0..KMaxBlocks}

-----------------------------------------------------------------------------
(* Inputs of the matcher: a sample and a reference Disassembly, and a threshold *)

\* most functions of a binary
MaxFns == 2

\* Decoder functions the binaries are made of: one without blocks, two with one
\* block, one with two blocks and the edge 1 -> 2.
FnNoBlocks == [blocks |-> <<>>, blockrefs |-> <<>>]
FnA == [blocks |-> << <<"A">> >>, blockrefs |-> <<>>]
FnAB == [blocks |-> << <<"A", "B">> >>, blockrefs |-> <<>>]
FnChain == [blocks |-> << <<"A">>, <<"B">> >>, blockrefs |-> (1 :> <<2>>)]
FnPool == {FnNoBlocks, FnA, FnAB, FnChain}

\* the threshold given to Grapher::new: any f32, NaN and values above 1.0 included
Thresholds == {Zero, Rat(3, 4), One, Rat(3, 2), NaN}

\* Instant::elapsed() of the comparison, in some unit
Durations == {1, 2}

\* A Disassembly as Disassembly::new leaves it, its name replaced by the label:
\* the i-th function at offset base + i, named after the binary and i.
DisassemblyOf(label, base, functions) ==
    [name |-> label, path |-> <<"/bin", label>>,
     graphs |-> [i \in 1..Len(functions) |->
                    GraphOf(<<label, i>>, base + i, functions[i])]]

FunctionLists == UNION {[1..n -> FnPool] : n \in 0..MaxFns}

SampleBinaries == {DisassemblyOf("sample", 0, fs) : fs \in FunctionLists}
ReferenceBinaries == {DisassemblyOf("go1.21", 100, fs) : fs \in FunctionLists}

-----------------------------------------------------------------------------
(* Idle values of the variable groups a specification does not use *)

IdleK == kpc = Off /\ ka = None /\ kb = None /\ kres = None /\ kcalls = None
IdleM ==
    /\ mpc = Off /\ msample = None /\ mref = None /\ mthreshold = None
    /\ mreport = None /\ mruns = None
IdleC ==
    /\ cmain = Off /\ csample = None /\ crefs = None /\ cthreshold = None /\ cpc = None
    /\ clocal = None /\ matches_list = None /\ creport = None
IdleG ==
    /\ gmain = Off /\ gitems = None /\ gpc = None /\ glocal = None
    /\ samples_graph = None /\ gresult = None
IdleD == dpc = Off /\ dis = None /\ dself = None /\ darg = None
IdleJ == jpc = Off /\ jreport = None /\ jjson = None /\ jback = None
IdleX ==
    /\ xpc = Off /\ xargs = None /\ xgraphs = None /\ xreport = None
    /\ xstdout = None /\ xfile = None /\ xexit = None
IdleU == upc = Off /\ ul = None /\ ur = None /\ uiter = None /\ ures = None

-----------------------------------------------------------------------------
(* SpecKernel: compare_graphs applied to every pair of graphs *)

InitKernel ==
    /\ kpc = "start"
    /\ ka \in Graphs
    /\ kb \in Graphs
    /\ kres = None
    /\ kcalls = <<>>
    /\ IdleM /\ IdleC /\ IdleG /\ IdleD /\ IdleJ /\ IdleX /\ IdleU

CompareGraphs ==
    /\ kpc = "start"
    /\ kres' = compare_graphs(ka, kb)
    /\ kcalls' = BlockComparisons(ka, kb)
    /\ kpc' = "done"
    /\ UNCHANGED <<ka, kb, mvars, cvars, gvars, dvars, jvars, xvars, uvars>>

NextKernel == CompareGraphs

SpecKernel == InitKernel /\ [][NextKernel]_vars

\* C2 as stated: graph similarity is symmetric for every pair of graphs,
\* compare_graphs(a, b) == compare_graphs(b, a) (here even with NaN taken equal to NaN)
C2_Symmetric == kpc = "done" => kres = compare_graphs(kb, ka)

\* C2 amended: the two directions agree when the hashes are equal or the smaller
\* graph has exactly one block; when exactly one graph has no block both are NaN
C2_SymmetricSmall ==
    kpc = "done" =>
        LET rev == compare_graphs(kb, ka)
            k == Min(Len(ka.blocks), Len(kb.blocks))
        IN /\ (ka.hash = kb.hash \/ k = 1) => F32Eq(kres, rev)
           /\ (ka.hash # kb.hash /\ k = 0) => IsNaN(kres) /\ IsNaN(rev)

\* a one-block graph compared with a two-block graph, with a similarity below 1.0
C2_Witness ==
    /\ kpc = "done"
    /\ Len(ka.blocks) = 1 /\ Len(kb.blocks) = 2
    /\ ka.blocks[1].in_refs # <<>>
    /\ F32Lt(kres, One) /\ F32Gt(kres, Zero)

\* the largest of the block similarities of source block i against the target's
\* blocks
LargestScore(l_blocks, i, r_blocks) ==
    LET scores == {compare_blocks(l_blocks, i, r_blocks, j) : j \in 1..Len(r_blocks)}
    IN CHOOSE v \in scores : \A w \in scores : F32Ge(v, w)

\* C18: compare_graphs(source, target) is 1.0, with no block compared, when the
\* graph hashes are equal; otherwise it is the mean of the k largest of the
\* per-source-block maxima of compare_blocks over the target's blocks,
\* k = min(|source.blocks|, |target.blocks|) (the f32 quotient 0.0 / 0.0 when k = 0)
C18_TopKMean ==
    kpc = "done" =>
        LET l_blocks == ka.blocks
            r_blocks == kb.blocks
            k == Min(Len(l_blocks), Len(r_blocks))
        IN /\ ka.hash = kb.hash => (kres = One /\ kcalls = <<>>)
           /\ (ka.hash # kb.hash /\ k = 0) => kres = F32DivInt(Zero, 0)
           /\ (ka.hash # kb.hash /\ k > 0) =>
                  \E S \in SUBSET (1..Len(l_blocks)) :
                      /\ Cardinality(S) = k
                      /\ \A i \in S : \A o \in (1..Len(l_blocks)) \ S :
                             F32Ge(LargestScore(l_blocks, i, r_blocks),
                                   LargestScore(l_blocks, o, r_blocks))
                      /\ kres = F32DivInt(
                                    F32Sum([m \in 1..k |->
                                        LargestScore(l_blocks, Ascending(S)[m], r_blocks)]),
                                    k)

\* two source blocks against one target block, the second source block the more
\* similar one: both pairs are compared and the result is the second one's score
C18_Witness ==
    /\ kpc = "done"
    /\ ka.hash # kb.hash
    /\ Len(ka.blocks) = 2 /\ Len(kb.blocks) = 1
    /\ kcalls = << <<1, 1>>, <<2, 1>> >>
    /\ F32Lt(compare_blocks(ka.blocks, 1, kb.blocks, 1),
             compare_blocks(ka.blocks, 2, kb.blocks, 1))
    /\ kres = compare_blocks(ka.blocks, 2, kb.blocks, 1)

-----------------------------------------------------------------------------
(* SpecMatch: Grapher::compare(sample, [reference]), one worker *)

InitMatch ==
    /\ mpc = "start"
    /\ mthreshold \in Thresholds
    /\ msample \in SampleBinaries
    /\ mref \in ReferenceBinaries \cup {msample}
    /\ mreport = None
    /\ mruns = None
    /\ IdleK /\ IdleC /\ IdleG /\ IdleD /\ IdleJ /\ IdleX /\ IdleU

\* compare with a single reference.  mruns keeps, for every function of the
\* reference, what its run of the matcher returned and how far it scanned.
CompareOne ==
    /\ mpc = "start"
    /\ \E compute_elapsed \in Durations :
        mreport' = CompareReport_new(msample.name,
                       <<compare_graph_sets(mthreshold, msample, mref)>>, compute_elapsed)
    /\ mruns' = [i \in 1..Len(mref.graphs) |->
                    MatcherRun(mthreshold, mref.graphs[i], msample)]
    /\ mpc' = "done"
    /\ UNCHANGED <<msample, mref, mthreshold, kvars, cvars, gvars, dvars, jvars, xvars, uvars>>

NextMatch == CompareOne

SpecMatch == InitMatch /\ [][NextMatch]_vars

\* the functions of the sample and of the reference, and the similarity the
\* matcher computes for reference function i and sample function j
SFns == msample.graphs
RFns == mref.graphs
Sim(i, j) == compare_graphs(RFns[i], SFns[j])
TheMatches == mreport.matches[1].matches

\* C1 as stated: every function G of the sample that some function of the reference
\* matches with similarity >= threshold has exactly one MethodMatch with G's offset
\* as malware_offset, pairing G with the reference function most similar to G
C1_PerSampleFunction ==
    mpc = "done" =>
        \A j \in 1..Len(SFns) :
            (\E i \in 1..Len(RFns) : F32Ge(Sim(i, j), mthreshold)) =>
                LET ms == {k \in 1..Len(TheMatches) :
                              TheMatches[k].malware_offset = SFns[j].offset}
                IN /\ Cardinality(ms) = 1
                   /\ \A k \in ms : \E i \in 1..Len(RFns) :
                        /\ TheMatches[k].clean_offset = RFns[i].offset
                        /\ \A i2 \in 1..Len(RFns) : ~F32Gt(Sim(i2, j), Sim(i, j))

\* C1 amended: the matches are per function F of the reference.  When some
\* function of the sample has a similarity to F that is not below the threshold,
\* there is exactly one MethodMatch with F's offset as clean_offset; it pairs F with
\* such a function of the sample, one that no function of the sample exceeds in
\* similarity.  Otherwise F has no MethodMatch.  The BinaryMatch names both binaries.
C1_PerReferenceFunction ==
    mpc = "done" =>
        /\ Len(mreport.matches) = 1
        /\ mreport.matches[1].source = msample.name
        /\ mreport.matches[1].dest = mref.name
        /\ \A k \in 1..Len(TheMatches) :
                \E i \in 1..Len(RFns) : TheMatches[k].clean_offset = RFns[i].offset
        /\ \A i \in 1..Len(RFns) :
            LET ms == {k \in 1..Len(TheMatches) :
                          TheMatches[k].clean_offset = RFns[i].offset}
                cands == {j \in 1..Len(SFns) : ~F32Lt(Sim(i, j), mthreshold)}
            IN IF cands = {} THEN ms = {}
               ELSE /\ Cardinality(ms) = 1
                    /\ \A k \in ms : \E j \in cands :
                        /\ TheMatches[k] = Method_new(SFns[j], RFns[i], Sim(i, j))
                        /\ \A j2 \in 1..Len(SFns) : ~F32Gt(Sim(i, j2), Sim(i, j))

\* two functions of the sample are above the threshold for the one function of the
\* reference: one MethodMatch, for the better of the two
C1_Witness ==
    /\ mpc = "done"
    /\ Len(RFns) = 1 /\ Len(SFns) = 2
    /\ F32Ge(Sim(1, 1), mthreshold) /\ F32Ge(Sim(1, 2), mthreshold)
    /\ F32Gt(Sim(1, 2), Sim(1, 1))
    /\ Len(TheMatches) = 1
    /\ TheMatches[1].malware_offset = SFns[2].offset

\* C3 as stated: every MethodMatch.similarity of the report is a number in [0, 1],
\* and so is every BinaryMatch.similarity unless its matches list is empty
C3_Range ==
    mpc = "done" =>
        \A b \in 1..Len(mreport.matches) :
            LET bm == mreport.matches[b] IN
            /\ \A k \in 1..Len(bm.matches) : InUnit(bm.matches[k].similarity)
            /\ bm.matches # <<>> => InUnit(bm.similarity)

\* C4 as stated: compare(d, [d]) gives one BinaryMatch of similarity 1.0 whose
\* MethodMatches all have similarity 1.0, and compare_graphs(g, g) is 1.0 for
\* every graph g of d
SelfSimilar ==
    /\ Len(mreport.matches) = 1
    /\ mreport.matches[1].similarity = One
    /\ \A k \in 1..Len(TheMatches) : TheMatches[k].similarity = One
    /\ \A j \in 1..Len(SFns) : compare_graphs(SFns[j], SFns[j]) = One

C5_ThresholdHonoured ==
    (mpc = "done" /\ InUnit(mthreshold)) =>
        \A k \in 1..Len(TheMatches) :
            /\ ~F32Lt(TheMatches[k].similarity, mthreshold)
            /\ F32Ge(TheMatches[k].similarity, mthreshold)

\* C6 as stated (for the thresholds in [0, 1]): the matcher returns no match exactly
\* when no function of the sample has similarity >= threshold; otherwise it returns
\* the MethodMatch of the first function, in stored order, whose similarity is the
\* maximum over the sample; and it compares no function after one of similarity 1.0
C6_Matcher ==
    (mpc = "done" /\ InUnit(mthreshold)) =>
        \A i \in 1..Len(RFns) :
            LET n == Len(SFns)
                IsMax(j) == \A j2 \in 1..n : F32Ge(Sim(i, j), Sim(i, j2))
            IN /\ (mruns[i].top = <<>>) <=>
                      ~(\E j \in 1..n : F32Ge(Sim(i, j), mthreshold))
               /\ mruns[i].top # <<>> =>
                      \E j \in 1..n :
                          /\ IsMax(j)
                          /\ \A j2 \in 1..(j - 1) : ~IsMax(j2)
                          /\ mruns[i].top[1] = Method_new(SFns[j], RFns[i], Sim(i, j))
               /\ \A j \in 1..n : F32Eq(Sim(i, j), One) => mruns[i].scanned <= j

-----------------------------------------------------------------------------
(* SpecCompare: Grapher::compare with one parallel worker per reference *)

\* most references given to compare
MaxRefs == 2

CompareSample == DisassemblyOf("sample", 0, <<FnA, FnChain>>)

\* the references: two Go versions, a second binary carrying the label of the
\* first, and the sample itself (the self-match)
CompareReferences ==
    {DisassemblyOf("go1.20", 100, <<FnA>>),
     DisassemblyOf("go1.21", 100, <<FnAB, FnChain>>),
     DisassemblyOf("go1.20", 100, <<>>),
     CompareSample}

CompareThresholds == {Zero, One}

InitCompare ==
    /\ cmain = "running"
    /\ csample = CompareSample
    /\ crefs \in UNION {[1..n -> CompareReferences] : n \in 0..MaxRefs}
    /\ cthreshold \in CompareThresholds
    /\ cpc = [i \in 1..Len(crefs) |-> "todo"]
    /\ clocal = [i \in 1..Len(crefs) |-> <<>>]
    /\ matches_list = <<>>
    /\ creport = <<>>
    /\ IdleK /\ IdleM /\ IdleG /\ IdleD /\ IdleJ /\ IdleX /\ IdleU

\* the worker of reference i: let matches = self.compare_graph_sets(sample, graph)
CompareSets(i) ==
    /\ cmain = "running"
    /\ cpc[i] = "todo"
    /\ clocal' = [clocal EXCEPT ![i] = <<compare_graph_sets(cthreshold, csample, crefs[i])>>]
    /\ cpc' = [cpc EXCEPT ![i] = "computed"]
    /\ UNCHANGED <<cmain, csample, crefs, cthreshold, matches_list, creport>>
    /\ UNCHANGED <<kvars, mvars, gvars, dvars, jvars, xvars, uvars>>

\* the push of worker i without the lock: it writes the slot another worker has
\* just filled
PushMatches_Unlocked(i) ==
    /\ cpc[i] = "computed"
    /\ matches_list' =
           IF matches_list = <<>> THEN <<clocal[i][1]>>
           ELSE [matches_list EXCEPT ![Len(matches_list)] = clocal[i][1]]
    /\ cpc' = [cpc EXCEPT ![i] = "pushed"]
    /\ UNCHANGED <<cmain, csample, crefs, cthreshold, clocal, creport>>
    /\ UNCHANGED <<kvars, mvars, gvars, dvars, jvars, xvars, uvars>>

\* the worker of reference i: matches_list.lock().push(matches)
PushMatches(i) ==
    /\ cpc[i] = "computed"
    /\ matches_list' = Append(matches_list, clocal[i][1])
    /\ cpc' = [cpc EXCEPT ![i] = "pushed"]
    /\ UNCHANGED <<cmain, csample, crefs, cthreshold, clocal, creport>>
    /\ UNCHANGED <<kvars, mvars, gvars, dvars, jvars, xvars, uvars>>

\* compare returning while workers are still running
ReturnReport_NoJoin ==
    /\ cmain = "running"
    /\ \E compute_elapsed \in Durations :
        creport' = <<CompareReport_new(csample.name, matches_list, compute_elapsed)>>
    /\ cmain' = "returned"
    /\ UNCHANGED <<csample, crefs, cthreshold, cpc, clocal, matches_list>>
    /\ UNCHANGED <<kvars, mvars, gvars, dvars, jvars, xvars, uvars>>

\* par_iter().for_each(..) is over, every worker has pushed: the report is built
ReturnReport ==
    /\ cmain = "running"
    /\ \A i \in 1..Len(crefs) : cpc[i] = "pushed"
    /\ \E compute_elapsed \in Durations :
        creport' = <<CompareReport_new(csample.name, matches_list, compute_elapsed)>>
    /\ cmain' = "returned"
    /\ UNCHANGED <<csample, crefs, cthreshold, cpc, clocal, matches_list>>
    /\ UNCHANGED <<kvars, mvars, gvars, dvars, jvars, xvars, uvars>>

NextCompare ==
    \/ \E i \in 1..Len(crefs) : CompareSets(i)
    \/ \E i \in 1..Len(crefs) : PushMatches(i)
    \/ ReturnReport

SpecCompare == InitCompare /\ [][NextCompare]_vars

\* how many entries of a sequence of records have the given value in the field
CountDest(matches, name) == Cardinality({k \in 1..Len(matches) : matches[k].dest = name})
CountName(refs, name) == Cardinality({i \in 1..Len(refs) : refs[i].name = name})

\* C7: when compare returns, the report has one BinaryMatch per entry of references
\* (as many with each dest as references with that name), each with the sample's
\* name as source; nothing was pushed that is not in the report
C7_OneBinaryMatchPerReference ==
    cmain = "returned" =>
        LET matches == creport[1].matches IN
        /\ Len(matches) = Len(crefs)
        /\ \A i \in 1..Len(crefs) :
               CountDest(matches, crefs[i].name) = CountName(crefs, crefs[i].name)
        /\ \A k \in 1..Len(matches) : matches[k].source = csample.name
        /\ matches = matches_list
        /\ creport[1].sample_name = csample.name

\* two references with different names, the worker of the second pushed first
C7_Witness ==
    /\ cmain = "returned"
    /\ Len(crefs) = 2
    /\ crefs[1].name # crefs[2].name
    /\ creport[1].matches[1].dest = crefs[2].name
    /\ creport[1].matches[2].dest = crefs[1].name

\* what compare_graph_sets gives for each reference, in the order of references
ExpectedMatches ==
    [i \in 1..Len(crefs) |-> compare_graph_sets(cthreshold, csample, crefs[i])]

\* the two sequences hold the same entries, each as many times
SameEntries(s, t) ==
    /\ Len(s) = Len(t)
    /\ \E p \in [1..Len(s) -> 1..Len(s)] :
           /\ \A i, j \in 1..Len(s) : i # j => p[i] # p[j]
           /\ \A i \in 1..Len(s) : s[p[i]] = t[i]

\* C12: under every schedule of the workers the report of compare holds the same
\* BinaryMatch entries, those compare_graph_sets gives for the sample, the
\* threshold and each reference, each with the same MethodMatch entries; only
\* their order in the report depends on the schedule
C12_DeterministicUpToOrder ==
    cmain = "returned" =>
        /\ SameEntries(creport[1].matches, ExpectedMatches)
        /\ \A k \in 1..Len(creport[1].matches) :
               \E i \in 1..Len(crefs) :
                   SameEntries(creport[1].matches[k].matches, ExpectedMatches[i].matches)

\* two references with different results, both with MethodMatch entries, reported
\* in the order opposite to the references
C12_Witness ==
    /\ cmain = "returned"
    /\ Len(crefs) = 2
    /\ ExpectedMatches[1] # ExpectedMatches[2]
    /\ creport[1].matches = <<ExpectedMatches[2], ExpectedMatches[1]>>
    /\ Len(ExpectedMatches[1].matches) >= 1
    /\ Len(ExpectedMatches[2].matches) >= 1

-----------------------------------------------------------------------------
(* disassembly.rs: Disassembly::new, filter_symbol, to_subset *)

\* every order in which the elements of a set can be visited (HashMap iteration)
Perms(S) ==
    {s \in [1..Cardinality(S) -> S] : \A x \in S : \E i \in 1..Cardinality(S) : s[i] = x}

\* Path::file_name(): the last component of a path
FileName(sample_path) == sample_path[Len(sample_path)]

\* OsStr::to_string_lossy() of one component: bytes that are not UTF-8 become U+FFFD
ToStringLossy(component) ==
    IF component = "d<ff>.img" THEN "d<fffd>.img" ELSE component

\* Path::to_string_lossy()
PathToStringLossy(sample_path) ==
    [k \in 1..Len(sample_path) |-> ToStringLossy(sample_path[k])]

\* graph_symbols: the symbol name at an address, "" where there is none
SymbolName(graph_symbols, fct_offset) ==
    IF fct_offset \in DOMAIN graph_symbols THEN graph_symbols[fct_offset] ELSE ""

\* The iteration orders Disassembly::new meets: of smda_functions, and per function
\* of its block map and of its blockrefs map.
Orders(functions) ==
    {[fns |-> f, blocks |-> b, refs |-> r] :
        f \in Perms(DOMAIN functions),
        b \in {x \in [DOMAIN functions ->
                        UNION {Perms(DOMAIN functions[o].blocks) : o \in DOMAIN functions}] :
                  \A o \in DOMAIN functions : x[o] \in Perms(DOMAIN functions[o].blocks)},
        r \in {x \in [DOMAIN functions ->
                        UNION {Perms(DOMAIN functions[o].blockrefs) : o \in DOMAIN functions}] :
                  \A o \in DOMAIN functions : x[o] \in Perms(DOMAIN functions[o].blockrefs)}}

\* the orders that visit every map by ascending key
AscendingOrders(functions) ==
    [fns |-> Ascending(DOMAIN functions),
     blocks |-> [o \in DOMAIN functions |-> Ascending(DOMAIN functions[o].blocks)],
     refs |-> [o \in DOMAIN functions |-> Ascending(DOMAIN functions[o].blockrefs)]]

\* Disassembly::new.  outcome is what reading, parsing and disassembling the file
\* gives: kind "functions" (with the decoder's functions and the file's symbols),
\* "unsupported" (smda's UnsupportedFormatError) or anything else (unreadable,
\* unparsable, another decoder error: the expect / panic! lines).  The value is a
\* Result: kind "Ok" with the Disassembly, "Err" with the error's sample, or
\* "panic".
Disassembly_new(sample_path, outcome, orders) ==
    IF outcome.kind = "unsupported"
    THEN [kind |-> "Err", sample |-> <<PathToStringLossy(sample_path)>>, value |-> <<>>]
    ELSE IF outcome.kind # "functions"
    THEN [kind |-> "panic", sample |-> <<>>, value |-> <<>>]
    ELSE LET pushed == [k \in 1..Len(orders.fns) |->
                           LET fct_offset == orders.fns[k] IN
                           BuildGraph(SymbolName(outcome.symbols, fct_offset), fct_offset,
                                      outcome.functions[fct_offset],
                                      orders.blocks[fct_offset], orders.refs[fct_offset])]
         IN [kind |-> "Ok", sample |-> <<>>,
             value |-> <<[name |-> ToStringLossy(FileName(sample_path)),
                          path |-> sample_path,
                          graphs |-> SortByOffset(pushed)]>>]

\* Regex::is_match for the expressions and the symbol names of this model
IsMatch(search_expression, name) ==
    CASE search_expression = "" -> TRUE
      [] search_expression = "main" -> name = "main.main"
      [] search_expression = "^runtime" -> name = "runtime.gc"
      [] search_expression = "^$" -> name = ""
      [] OTHER -> FALSE

\* iter().filter(..).cloned().collect(): the kept elements, in order
RECURSIVE FilterGraphs(_, _)
FilterGraphs(graphs, search_expression) ==
    IF graphs = <<>> THEN <<>>
    ELSE IF IsMatch(search_expression, graphs[1].name)
         THEN <<graphs[1]>> \o FilterGraphs(Tail(graphs), search_expression)
         ELSE FilterGraphs(Tail(graphs), search_expression)

filter_symbol(self, search_expression) ==
    [name |-> self.name, path |-> self.path,
     graphs |-> FilterGraphs(self.graphs, search_expression)]

\* ratio.clamp(0.0, 1.0): NaN stays NaN
Clamp01(ratio) ==
    IF IsNaN(ratio) THEN NaN
    ELSE IF F32Lt(ratio, Zero) THEN Zero
    ELSE IF F32Gt(ratio, One) THEN One
    ELSE ratio

\* n_args rounded to the nearest integer instead of truncated
NArgs_Round(len, ratio) ==
    LET c == Clamp01(ratio) IN IF IsNaN(c) THEN 0 ELSE (2 * len * c.n + c.d) \div (2 * c.d)

\* (len as f32 * ratio.clamp(0.0, 1.0)) as usize: truncation, NaN gives 0
NArgs(len, ratio) ==
    LET c == Clamp01(ratio) IN IF IsNaN(c) THEN 0 ELSE (len * c.n) \div c.d

\* rand::seq::index::sample(rng, length, amount): amount distinct indices of
\* 0..length, in random order (1-based here)
IndexSamples(length, amount) ==
    {s \in [1..amount -> 1..length] : \A i, j \in 1..amount : i # j => s[i] # s[j]}

\* to_subset with the indices the random generator gave
to_subset(self, subset_indices) ==
    [name |-> self.name, path |-> self.path,
     graphs |-> [k \in 1..Len(subset_indices) |-> self.graphs[subset_indices[k]]]]

-----------------------------------------------------------------------------
(* SpecGenerate: Grapher::generate_graphs with one parallel build per item *)

\* most items given to generate_graphs
MaxItems == 3

\* what the files of this model hold
ReportA ==
    [kind |-> "functions", functions |-> (10 :> FnA @@ 20 :> FnChain),
     symbols |-> (10 :> "main.main")]
ReportB == [kind |-> "functions", functions |-> (10 :> FnAB), symbols |-> <<>>]
Unsupported == [kind |-> "unsupported", functions |-> <<>>, symbols |-> <<>>]
Unparsable == [kind |-> "unparsable", functions |-> <<>>, symbols |-> <<>>]

\* std::fs::read, File::parse and Disassembler::disassemble_file on a path
DecoderOutcome(sample_path) ==
    CASE FileName(sample_path) = "a.elf" -> ReportA
      [] FileName(sample_path) = "b.elf" -> ReportB
      [] FileName(sample_path) = "c.img" -> Unsupported
      [] FileName(sample_path) = "d<ff>.img" -> Unsupported
      [] OTHER -> Unparsable

\* (label, path) items: two supported binaries, one of them under two labels, two
\* binaries of an unsupported format, and a file that is no binary at all
ItemPool ==
    {<<"go1.20", <<"/bin", "a.elf">>>>,
     <<"go1.21", <<"/bin", "b.elf">>>>,
     <<"go1.21", <<"/bin", "a.elf">>>>,
     <<"old", <<"/bin", "c.img">>>>,
     <<"raw", <<"/bin", "d<ff>.img">>>>,
     <<"notes", <<"/bin", "e.txt">>>>}

NoResult == [kind |-> "none", sample |-> <<>>, value |-> <<>>]

InitGenerate ==
    /\ gmain = "running"
    /\ gitems \in UNION {[1..n -> ItemPool] : n \in 0..MaxItems}
    /\ gpc = [i \in 1..Len(gitems) |-> "todo"]
    /\ glocal = [i \in 1..Len(gitems) |-> NoResult]
    /\ samples_graph = <<>>
    /\ gresult = NoResult
    /\ IdleK /\ IdleM /\ IdleC /\ IdleD /\ IdleJ /\ IdleX /\ IdleU

\* the build of item i keeping the file name as the Disassembly's name
BuildOne_KeepName(i) ==
    /\ gmain = "running"
    /\ gpc[i] = "todo"
    /\ \E orders \in Orders(DecoderOutcome(gitems[i][2]).functions) :
        LET r == Disassembly_new(gitems[i][2], DecoderOutcome(gitems[i][2]), orders) IN
        /\ glocal' = [glocal EXCEPT ![i] = r]
        /\ gpc' = [gpc EXCEPT ![i] =
                      CASE r.kind = "Ok" -> "built"
                        [] r.kind = "Err" -> "failed"
                        [] OTHER -> "panicked"]
    /\ UNCHANGED <<gmain, gitems, samples_graph, gresult>>
    /\ UNCHANGED <<kvars, mvars, cvars, dvars, jvars, xvars, uvars>>

\* the closure of item i up to the lock: Disassembly::new(sample_path)? and
\* disassembly.name = version.clone().  An Err ends the closure with that error, a
\* panic unwinds it.
BuildOne(i) ==
    /\ gmain = "running"
    /\ gpc[i] = "todo"
    /\ \E orders \in Orders(DecoderOutcome(gitems[i][2]).functions) :
        LET r == Disassembly_new(gitems[i][2], DecoderOutcome(gitems[i][2]), orders) IN
        /\ glocal' = [glocal EXCEPT ![i] =
                         IF r.kind = "Ok"
                         THEN [r EXCEPT !.value = <<[r.value[1] EXCEPT !.name = gitems[i][1]]>>]
                         ELSE r]
        /\ gpc' = [gpc EXCEPT ![i] =
                      CASE r.kind = "Ok" -> "built"
                        [] r.kind = "Err" -> "failed"
                        [] OTHER -> "panicked"]
    /\ UNCHANGED <<gmain, gitems, samples_graph, gresult>>
    /\ UNCHANGED <<kvars, mvars, cvars, dvars, jvars, xvars, uvars>>

\* the closure of item i: samples_graph.lock().push(disassembly); Ok(())
PushDisassembly(i) ==
    /\ gpc[i] = "built"
    /\ samples_graph' = Append(samples_graph, glocal[i].value[1])
    /\ gpc' = [gpc EXCEPT ![i] = "pushed"]
    /\ UNCHANGED <<gmain, gitems, glocal, gresult>>
    /\ UNCHANGED <<kvars, mvars, cvars, dvars, jvars, xvars, uvars>>

\* try_for_each stops handing out items once a closure has returned an Err
SkipItem(i) ==
    /\ gmain = "running"
    /\ gpc[i] = "todo"
    /\ \E j \in 1..Len(gitems) : gpc[j] = "failed"
    /\ gpc' = [gpc EXCEPT ![i] = "skipped"]
    /\ UNCHANGED <<gmain, gitems, glocal, samples_graph, gresult>>
    /\ UNCHANGED <<kvars, mvars, cvars, dvars, jvars, xvars, uvars>>

Ended(i) == gpc[i] \in {"pushed", "failed", "skipped", "panicked"}

\* generate_graphs returning what was pushed, whatever the closures returned
GenerateReturn_Partial ==
    /\ gmain = "running"
    /\ \A i \in 1..Len(gitems) : Ended(i)
    /\ gmain' = "returned"
    /\ gresult' = [kind |-> "Ok", sample |-> <<>>, value |-> samples_graph]
    /\ UNCHANGED <<gitems, gpc, glocal, samples_graph>>
    /\ UNCHANGED <<kvars, mvars, cvars, dvars, jvars, xvars, uvars>>

\* try_for_each(..)? and Ok(samples_graph), once every closure has ended: a panic
\* of a closure is resumed in the caller; else an Err of one of the closures is
\* returned by `?` and samples_graph is dropped; else the vector is returned.
GenerateReturn ==
    /\ gmain = "running"
    /\ \A i \in 1..Len(gitems) : Ended(i)
    /\ IF \E i \in 1..Len(gitems) : gpc[i] = "panicked"
       THEN gmain' = "panicked" /\ gresult' = NoResult
       ELSE /\ gmain' = "returned"
            /\ IF \E i \in 1..Len(gitems) : gpc[i] = "failed"
               THEN \E i \in 1..Len(gitems) :
                       /\ gpc[i] = "failed"
                       /\ gresult' = [kind |-> "Err", sample |-> glocal[i].sample,
                                      value |-> <<>>]
               ELSE gresult' = [kind |-> "Ok", sample |-> <<>>, value |-> samples_graph]
    /\ UNCHANGED <<gitems, gpc, glocal, samples_graph>>
    /\ UNCHANGED <<kvars, mvars, cvars, dvars, jvars, xvars, uvars>>

NextGenerate ==
    \/ \E i \in 1..Len(gitems) : BuildOne(i)
    \/ \E i \in 1..Len(gitems) : PushDisassembly(i)
    \/ \E i \in 1..Len(gitems) : SkipItem(i)
    \/ GenerateReturn

SpecGenerate == InitGenerate /\ [][NextGenerate]_vars

IsUnsupported(item) == DecoderOutcome(item[2]).kind = "unsupported"
IsSupported(item) == DecoderOutcome(item[2]).kind = "functions"

\* C8: when generate_graphs returns and some item is of an unsupported format, it
\* returns Err(UnsupportedBinaryFormat) whose sample is the path of an unsupported
\* item, and no Disassembly reaches the caller, whatever was pushed before; it
\* ends in a panic only when Disassembly::new panics on some item
C8_ErrorAbortsBatch ==
    /\ (gmain = "returned" /\ \E i \in 1..Len(gitems) : IsUnsupported(gitems[i])) =>
           /\ gresult.kind = "Err"
           /\ gresult.value = <<>>
           /\ \E i \in 1..Len(gitems) :
                  /\ IsUnsupported(gitems[i])
                  /\ gresult.sample = <<PathToStringLossy(gitems[i][2])>>
    /\ gmain = "panicked" =>
           /\ gresult.value = <<>>
           /\ \E i \in 1..Len(gitems) :
                  ~IsUnsupported(gitems[i]) /\ ~IsSupported(gitems[i])

\* an error returned after another item was built and pushed
C8_Witness ==
    /\ gmain = "returned"
    /\ gresult.kind = "Err"
    /\ gresult.value = <<>>
    /\ Len(samples_graph) >= 1
    /\ \E i \in 1..Len(gitems) : gpc[i] = "pushed"

\* C9: when every item is a supported binary, generate_graphs returns Ok with
\* exactly one Disassembly per item (some one-to-one pairing of entries and
\* items), whose path is the item's path, whose name is the item's label and
\* whose graphs are those of the item's file
C9_OnePerItem ==
    (gmain # "running" /\ \A i \in 1..Len(gitems) : IsSupported(gitems[i])) =>
        /\ gmain = "returned"
        /\ gresult.kind = "Ok"
        /\ Len(gresult.value) = Len(gitems)
        /\ \E p \in Perms(1..Len(gitems)) :
               \A i \in 1..Len(gitems) :
                   /\ gresult.value[p[i]].path = gitems[i][2]
                   /\ gresult.value[p[i]].name = gitems[i][1]
                   /\ gresult.value[p[i]].graphs =
                          Disassembly_new(gitems[i][2], DecoderOutcome(gitems[i][2]),
                              AscendingOrders(DecoderOutcome(gitems[i][2]).functions)
                          ).value[1].graphs

\* two supported items under different labels, returned in the other order, the
\* labels not being the file names
C9_Witness ==
    /\ gmain = "returned"
    /\ gresult.kind = "Ok"
    /\ Len(gitems) >= 2
    /\ gitems[1][1] # gitems[2][1]
    /\ gresult.value[1].name = gitems[2][1]
    /\ gresult.value[2].name = gitems[1][1]
    /\ gresult.value[1].name # FileName(gresult.value[1].path)

-----------------------------------------------------------------------------
(* SpecDisassembly: a Disassembly built by Disassembly::new, then any sequence *)
(* of filter_symbol and to_subset calls on it                                 *)

\* most functions the decoder reports for a binary
MaxGraphs == 3

\* the symbols of the binary: the functions at 10 and 20 are named
BinarySymbols == (10 :> "main.main" @@ 20 :> "runtime.gc")

\* the decoder's reports: functions at some of the offsets 10, 20, ..
Reports ==
    {[kind |-> "functions", functions |-> fs, symbols |-> BinarySymbols] :
        fs \in UNION {[O -> {FnA, FnChain}] : O \in SUBSET {10 * i : i \in 1..MaxGraphs}}}

SearchExpressions == {"", "main", "^runtime", "^$", "nothing"}

\* ratios given to to_subset: any f32 (halves and quarters, and their products
\* with a small length, are exact in f32)
Ratios == {Rat(-1, 2), Zero, Rat(1, 2), Rat(3, 4), One, Rat(3, 2), NaN}

InitDisassembly ==
    /\ dpc = "start"
    /\ dis = None
    /\ dself = None
    /\ darg = None
    /\ IdleK /\ IdleM /\ IdleC /\ IdleG /\ IdleJ /\ IdleX /\ IdleU

\* Disassembly::new on a supported binary
NewDisassembly ==
    /\ dpc = "start"
    /\ \E report \in Reports :
        \E orders \in Orders(report.functions) :
            dis' = Disassembly_new(<<"/bin", "a.elf">>, report, orders).value[1]
    /\ dpc' = "new"
    /\ UNCHANGED <<dself, darg>>
    /\ UNCHANGED <<kvars, mvars, cvars, gvars, jvars, xvars, uvars>>

\* dis = dis.filter_symbol(search_expression); dself and darg keep the receiver
\* and the argument of the last call
FilterSymbol ==
    /\ dpc \in {"new", "filtered", "subset"}
    /\ \E search_expression \in SearchExpressions :
        /\ dis' = filter_symbol(dis, search_expression)
        /\ darg' = search_expression
    /\ dself' = dis
    /\ dpc' = "filtered"
    /\ UNCHANGED <<kvars, mvars, cvars, gvars, jvars, xvars, uvars>>

\* dis = dis.to_subset(ratio)
ToSubset ==
    /\ dpc \in {"new", "filtered", "subset"}
    /\ \E ratio \in Ratios :
        \E subset_indices \in IndexSamples(Len(dis.graphs), NArgs(Len(dis.graphs), ratio)) :
            /\ dis' = to_subset(dis, subset_indices)
            /\ darg' = ratio
    /\ dself' = dis
    /\ dpc' = "subset"
    /\ UNCHANGED <<kvars, mvars, cvars, gvars, jvars, xvars, uvars>>

NextDisassembly ==
    \/ NewDisassembly
    \/ FilterSymbol
    \/ ToSubset

SpecDisassembly == InitDisassembly /\ [][NextDisassembly]_vars

\* s[i].offset <= s[j].offset for i < j
SortedByOffset(s) == \A i, j \in 1..Len(s) : i < j => s[i].offset <= s[j].offset

\* C10: every Disassembly value, the one Disassembly::new returns and the ones
\* filter_symbol and to_subset make of it, has its graphs in ascending offset
\* order and the blocks of every graph in ascending offset order
C10_SortedByOffset ==
    dpc \in {"new", "filtered", "subset"} =>
        /\ SortedByOffset(dis.graphs)
        /\ \A k \in 1..Len(dis.graphs) : SortedByOffset(dis.graphs[k].blocks)

\* how many entries of a sequence of graphs are the graph g
CountGraph(graphs, g) == Cardinality({k \in 1..Len(graphs) : graphs[k] = g})

-----------------------------------------------------------------------------
(* compare_report.rs: to_json and from_json (serde_json over the derived       *)
(* Serialize / Deserialize of CompareReport, BinaryMatch and MethodMatch)      *)

\* A JSON document is its tree of values: [t |-> "null"], [t |-> "number", v],
\* [t |-> "string", v], [t |-> "array", v] and [t |-> "object", v], v a record of
\* the members.  Pretty printing and parsing of the text are not modelled.
JsonNull == [t |-> "null", v |-> <<>>]
JsonNumber(x) == [t |-> "number", v |-> x]
JsonString(x) == [t |-> "string", v |-> x]
JsonArray(x) == [t |-> "array", v |-> x]
JsonObject(x) == [t |-> "object", v |-> x]

\* serialize_f32: a NaN (or an infinity) is written as null
F32ToJson(x) == IF IsNaN(x) THEN JsonNull ELSE JsonNumber(x)

\* f32::deserialize: a number is read back, anything else is an error (<< >>)
F32FromJson(j) == IF j.t = "number" THEN <<j.v>> ELSE <<>>

\* Duration is written as its secs and nanos; the durations here are whole seconds
DurationToJson(d) == JsonObject([secs |-> JsonNumber(d), nanos |-> JsonNumber(0)])
DurationFromJson(j) == j.v.secs.v

MethodToJson(m) ==
    JsonObject([old_name |-> JsonString(m.old_name),
                resolved_name |-> JsonString(m.resolved_name),
                malware_offset |-> JsonNumber(m.malware_offset),
                clean_offset |-> JsonNumber(m.clean_offset),
                similarity |-> F32ToJson(m.similarity)])

\* << >> when a member cannot be read
MethodFromJson(j) ==
    LET similarity == F32FromJson(j.v.similarity) IN
    IF similarity = <<>> THEN <<>>
    ELSE <<[old_name |-> j.v.old_name.v, resolved_name |-> j.v.resolved_name.v,
            malware_offset |-> j.v.malware_offset.v, clean_offset |-> j.v.clean_offset.v,
            similarity |-> similarity[1]]>>

BinaryToJson(b) ==
    JsonObject([similarity |-> F32ToJson(b.similarity),
                source |-> JsonString(b.source),
                dest |-> JsonString(b.dest),
                matches |-> JsonArray([k \in 1..Len(b.matches) |-> MethodToJson(b.matches[k])])])

BinaryFromJson(j) ==
    LET similarity == F32FromJson(j.v.similarity)
        matches == [k \in 1..Len(j.v.matches.v) |-> MethodFromJson(j.v.matches.v[k])]
    IN IF similarity = <<>> \/ \E k \in 1..Len(matches) : matches[k] = <<>> THEN <<>>
       ELSE <<[similarity |-> similarity[1], source |-> j.v.source.v, dest |-> j.v.dest.v,
               matches |-> [k \in 1..Len(matches) |-> matches[k][1]]]>>

\* serde_json::to_string_pretty(self).expect(..): serialization does not fail
to_json(self) ==
    JsonObject([sample_name |-> JsonString(self.sample_name),
                matches |-> JsonArray([k \in 1..Len(self.matches) |->
                                          BinaryToJson(self.matches[k])]),
                compute_time |-> DurationToJson(self.compute_time)])

\* serde_json::from_str(json_data).expect(..): kind "Ok" with the report, or
\* "panic" when the document cannot be read as a CompareReport
from_json(json_data) ==
    LET matches == [k \in 1..Len(json_data.v.matches.v) |->
                       BinaryFromJson(json_data.v.matches.v[k])]
    IN IF \E k \in 1..Len(matches) : matches[k] = <<>>
       THEN [kind |-> "panic", value |-> <<>>]
       ELSE [kind |-> "Ok",
             value |-> <<[sample_name |-> json_data.v.sample_name.v,
                          matches |-> [k \in 1..Len(matches) |-> matches[k][1]],
                          compute_time |-> DurationFromJson(json_data.v.compute_time)]>>]

-----------------------------------------------------------------------------
(* SpecJson: a report of compare written with to_json and read with from_json *)

\* the reports compare returns for one sample and no or one reference
JsonReports ==
    {CompareReport_new(s.name, <<>>, d) : s \in SampleBinaries, d \in Durations}
    \cup {CompareReport_new(s.name, <<compare_graph_sets(t, s, r)>>, d) :
             s \in SampleBinaries, r \in ReferenceBinaries, t \in Thresholds, d \in Durations}

InitJson ==
    /\ jpc = "start"
    /\ jreport \in JsonReports
    /\ jjson = <<>>
    /\ jback = <<>>
    /\ IdleK /\ IdleM /\ IdleC /\ IdleG /\ IdleD /\ IdleX /\ IdleU

\* json = report.to_json()
ToJson ==
    /\ jpc = "start"
    /\ jjson' = <<to_json(jreport)>>
    /\ jpc' = "encoded"
    /\ UNCHANGED <<jreport, jback>>
    /\ UNCHANGED <<kvars, mvars, cvars, gvars, dvars, xvars, uvars>>

\* back = CompareReport::from_json(&json)
FromJson ==
    /\ jpc = "encoded"
    /\ LET r == from_json(jjson[1]) IN
        /\ jback' = r.value
        /\ jpc' = IF r.kind = "Ok" THEN "decoded" ELSE "panicked"
    /\ UNCHANGED <<jreport, jjson>>
    /\ UNCHANGED <<kvars, mvars, cvars, gvars, dvars, xvars, uvars>>

NextJson ==
    \/ ToJson
    \/ FromJson

SpecJson == InitJson /\ [][NextJson]_vars

\* C11: from_json(to_json(r)) succeeds and gives a report equal to r on every
\* field, for every report r of compare, one with a BinaryMatch without matches
\* included
C11_RoundTrip ==
    jpc \in {"decoded", "panicked"} =>
        /\ jpc = "decoded"
        /\ jback = <<jreport>>

-----------------------------------------------------------------------------
(* cli.rs: Cli::parse_cli *)

\* The Disassembly generate_graphs pushes for a supported item: Disassembly::new
\* of the path, the name replaced by the label.
BuiltDisassembly(item) ==
    LET outcome == DecoderOutcome(item[2])
        d == Disassembly_new(item[2], outcome, AscendingOrders(outcome.functions)).value[1]
    IN [d EXCEPT !.name = item[1]]

\* What generate_graphs(sample_list) can end with, over the schedules of its
\* parallel builds: Ok with the Disassemblies in the order they were pushed, Err
\* with the sample of an unsupported item, or a panic of Disassembly::new.
GenerateOutcomes(sample_list) ==
    LET n == Len(sample_list)
        unsupported == {i \in 1..n : IsUnsupported(sample_list[i])}
        fatal == {i \in 1..n : ~IsUnsupported(sample_list[i]) /\ ~IsSupported(sample_list[i])}
    IN {[kind |-> "Ok", sample |-> <<>>,
         value |-> [k \in 1..n |-> BuiltDisassembly(sample_list[order[k]])]] :
            order \in IF unsupported = {} /\ fatal = {} THEN Perms(1..n) ELSE {}}
       \cup {[kind |-> "Err", sample |-> <<PathToStringLossy(sample_list[i][2])>>,
              value |-> <<>>] : i \in unsupported}
       \cup {[kind |-> "panic", sample |-> <<>>, value |-> <<>>] : i \in fatal}

\* What compare(sample_graph, reference_graphs) can return, over the schedules of
\* its workers and the time it takes.
CompareOutcomes(threshold, sample_graph, reference_graphs) ==
    {CompareReport_new(sample_graph.name,
                       [k \in 1..Len(reference_graphs) |->
                           compare_graph_sets(threshold, sample_graph,
                                              reference_graphs[order[k]])],
                       compute_elapsed) :
        order \in Perms(1..Len(reference_graphs)), compute_elapsed \in Durations}

\* file_name().expect(..).to_str().expect(..): << >> when the name is not UTF-8
FileNameToStr(path) ==
    IF ToStringLossy(FileName(path)) = FileName(path) THEN <<FileName(path)>> ELSE <<>>

\* reference_paths once the sample is pushed: (file name, path) per reference, in
\* the order of the arguments, then the sample
CliItems(args) ==
    [k \in 1..(Len(args.reference_path) + 1) |->
        LET path == IF k <= Len(args.reference_path) THEN args.reference_path[k]
                    ELSE args.sample_path
        IN <<FileNameToStr(path)[1], path>>]

\* iter().position(|disassembly| disassembly.path == args.sample_path): 0 is None
RECURSIVE PositionOfPath(_, _, _)
PositionOfPath(disassemblies, sample_path, k) ==
    IF k > Len(disassemblies) THEN 0
    ELSE IF disassemblies[k].path = sample_path THEN k
    ELSE PositionOfPath(disassemblies, sample_path, k + 1)

\* println!("{error}") of Error::UnsupportedBinaryFormat
Diagnostic(sample) ==
    [kind |-> "diagnostic",
     text |-> <<"ERROR: Unsupported binary format for sample", sample, "!">>]

\* println!("{report_colored}")
ColoredReport(report_json) == [kind |-> "report", text |-> report_json]

-----------------------------------------------------------------------------
(* SpecCli: one run of the command line *)

\* most reference paths on the command line
MaxCliRefs == 2

CliSamplePaths == {<<"/bin", "a.elf">>, <<"/bin", "c.img">>}
CliReferencePaths ==
    {<<"/bin", "a.elf">>, <<"/bin", "b.elf">>, <<"/old", "b.elf">>,
     <<"/bin", "c.img">>, <<"/bin", "d<ff>.img">>, <<"/bin", "e.txt">>}

\* Args: --output is absent or a path; --threshold is 0.0 unless given
CliArgs ==
    {[sample_path |-> sp, reference_path |-> rp, output_path |-> op, threshold |-> t] :
        sp \in CliSamplePaths,
        rp \in UNION {[1..n -> CliReferencePaths] : n \in 0..MaxCliRefs},
        op \in {<<>>, <<<<"/tmp", "report.json">>>>},
        t \in {Zero, One}}

InitCli ==
    /\ xpc = "start"
    /\ xargs \in CliArgs
    /\ xgraphs = <<>>
    /\ xreport = <<>>
    /\ xstdout = <<>>
    /\ xfile = <<>>
    /\ xexit = <<>>
    /\ IdleK /\ IdleM /\ IdleC /\ IdleG /\ IdleD /\ IdleJ /\ IdleU

\* parse_cli up to the match on generate_graphs' result: the file names are
\* taken (a panic when one is not UTF-8), the sample is pushed last, the graphs
\* are generated; an Err is printed and parse_cli returns
CliGenerate ==
    /\ xpc = "start"
    /\ IF \E k \in 1..Len(xargs.reference_path) : FileNameToStr(xargs.reference_path[k]) = <<>>
       THEN xpc' = "panicked" /\ UNCHANGED <<xgraphs, xstdout>>
       ELSE \E r \in GenerateOutcomes(CliItems(xargs)) :
               CASE r.kind = "Ok" ->
                        xpc' = "generated" /\ xgraphs' = r.value /\ UNCHANGED xstdout
                 [] r.kind = "Err" ->
                        /\ xpc' = "returned"
                        /\ xstdout' = Append(xstdout, Diagnostic(r.sample[1]))
                        /\ UNCHANGED xgraphs
                 [] OTHER -> xpc' = "panicked" /\ UNCHANGED <<xgraphs, xstdout>>
    /\ UNCHANGED <<xargs, xreport, xfile, xexit>>
    /\ UNCHANGED <<kvars, mvars, cvars, gvars, dvars, jvars, uvars>>

\* the sample's Disassembly left among the references of compare
CliCompare_KeepSample ==
    /\ xpc = "generated"
    /\ LET sample_index == PositionOfPath(xgraphs, xargs.sample_path, 1) IN
        \E report \in CompareOutcomes(xargs.threshold, xgraphs[sample_index], xgraphs) :
            xreport' = <<report>>
    /\ xpc' = "compared"
    /\ UNCHANGED <<xargs, xgraphs, xstdout, xfile, xexit>>
    /\ UNCHANGED <<kvars, mvars, cvars, gvars, dvars, jvars, uvars>>

\* the sample's Disassembly is found by its path and taken out with swap_remove,
\* the others are the references of compare
CliCompare ==
    /\ xpc = "generated"
    /\ LET sample_index == PositionOfPath(xgraphs, xargs.sample_path, 1)
           malware_graph == xgraphs[sample_index]
           rest == SwapRemove(xgraphs, sample_index)
       IN \E report \in CompareOutcomes(xargs.threshold, malware_graph, rest) :
              xreport' = <<report>>
    /\ xpc' = "compared"
    /\ UNCHANGED <<xargs, xgraphs, xstdout, xfile, xexit>>
    /\ UNCHANGED <<kvars, mvars, cvars, gvars, dvars, jvars, uvars>>

\* the report goes to the --output file when File::create succeeds (it is dropped
\* silently when it does not), to stdout when there is no --output
CliOutput ==
    /\ xpc = "compared"
    /\ LET report_json == to_json(xreport[1]) IN
        IF xargs.output_path # <<>>
        THEN /\ \E created \in BOOLEAN :
                    xfile' = IF created THEN <<report_json>> ELSE <<>>
             /\ UNCHANGED xstdout
        ELSE /\ xstdout' = Append(xstdout, ColoredReport(report_json))
             /\ UNCHANGED xfile
    /\ xpc' = "returned"
    /\ UNCHANGED <<xargs, xgraphs, xreport, xexit>>
    /\ UNCHANGED <<kvars, mvars, cvars, gvars, dvars, jvars, uvars>>

\* The process ends.  parse_cli returns () whatever happened and run_cli returns
\* after it: the status is 0.  After a panic it is 101 under a Rust main, and 0
\* under run_cli_py, which drops the result of the thread's join.
CliExit ==
    /\ xpc \in {"returned", "panicked"}
    /\ IF xpc = "returned" THEN xexit' = <<0>> ELSE \E status \in {0, 101} : xexit' = <<status>>
    /\ xpc' = IF xpc = "returned" THEN "exited" ELSE "aborted"
    /\ UNCHANGED <<xargs, xgraphs, xreport, xstdout, xfile>>
    /\ UNCHANGED <<kvars, mvars, cvars, gvars, dvars, jvars, uvars>>

NextCli ==
    \/ CliGenerate
    \/ CliCompare
    \/ CliOutput
    \/ CliExit

SpecCli == InitCli /\ [][NextCli]_vars

\* a diagnostic line was printed / the report was printed
Printed(kind) == \E k \in 1..Len(xstdout) : xstdout[k].kind = kind

\* C14: the run exits with status 0 when the report is produced; when
\* generate_graphs reports an unsupported format it exits with a non-zero status,
\* a diagnostic line is printed and no report is written or printed
C14_ExitStatus ==
    xpc = "exited" =>
        /\ xreport # <<>> => xexit = <<0>>
        /\ xreport = <<>> =>
               /\ xexit # <<0>>
               /\ Printed("diagnostic")
               /\ ~Printed("report")
               /\ xfile = <<>>

\* the labels of the run: the file names of the references and of the sample
ReferenceLabels == [k \in 1..Len(xargs.reference_path) |-> FileName(xargs.reference_path[k])]
SampleLabel == FileName(xargs.sample_path)

\* how many entries of the report have the given dest, how many references the
\* given label
CountReported(label) ==
    Cardinality({k \in 1..Len(xreport[1].matches) : xreport[1].matches[k].dest = label})
CountReferences(label) ==
    Cardinality({k \in 1..Len(ReferenceLabels) : ReferenceLabels[k] = label})

-----------------------------------------------------------------------------
(* Inputs of the streamer: index lists over a slice of blocks *)

\* most indices a streamer lists
MaxIndices == 3

\* the slice: a block without instructions, a block with one, a block that
\* shares it, a block that repeats one
StreamBlocks ==
    <<BasicBlock_new(1, <<>>), BasicBlock_new(2, <<"A">>),
      BasicBlock_new(3, <<"A", "B">>), BasicBlock_new(4, <<"B", "B">>)>>

Streamers ==
    {InstructionStreamer_new(StreamBlocks, indices) :
        indices \in UNION {[1..n -> 1..Len(StreamBlocks)] : n \in 0..MaxIndices}}

\* the instructions of the listed blocks, in listed order
RECURSIVE ListedInstructions(_, _)
ListedInstructions(s, k) ==
    IF k > Len(s.indices) THEN <<>>
    ELSE s.blocks[s.indices[k]].instructions \o ListedInstructions(s, k + 1)

\* no listed block is without instructions
NoEmptyListed(s) == \A k \in 1..Len(s.indices) : s.blocks[s.indices[k]].instructions # <<>>

-----------------------------------------------------------------------------
(* SpecStreamer: an InstructionStreamer iterated until next() returns None *)

InitStreamer ==
    /\ upc = "iterating"
    /\ ul \in Streamers
    /\ ur = None
    /\ uiter = InstructionStreamer_iter(ul)
    /\ ures = <<>>
    /\ IdleK /\ IdleM /\ IdleC /\ IdleG /\ IdleD /\ IdleJ /\ IdleX

\* one call of next(): the item is kept, the first None ends the iteration
StreamerNext ==
    /\ upc = "iterating"
    /\ LET r == InstructionStreamerIter_next(uiter) IN
        /\ uiter' = r.it
        /\ IF r.item = <<>>
           THEN upc' = "done" /\ UNCHANGED ures
           ELSE upc' = "iterating" /\ ures' = Append(ures, r.item[1])
    /\ UNCHANGED <<ul, ur>>
    /\ UNCHANGED <<kvars, mvars, cvars, gvars, dvars, jvars, xvars>>

NextStreamer == StreamerNext

SpecStreamer == InitStreamer /\ [][NextStreamer]_vars

StreamerYields ==
    upc = "done" =>
        /\ ures = StreamerBytes(ul)
        /\ NoEmptyListed(ul) =>
               /\ ures = ListedInstructions(ul, 1)
               /\ Len(ures) = StreamerLen(ul)

-----------------------------------------------------------------------------
(* SpecInstructions: compare_instructions on two streamers *)

InitInstructions ==
    /\ upc = "start"
    /\ ul \in Streamers
    /\ ur \in Streamers
    /\ uiter = None
    /\ ures = <<>>
    /\ IdleK /\ IdleM /\ IdleC /\ IdleG /\ IdleD /\ IdleJ /\ IdleX

CompareInstructions ==
    /\ upc = "start"
    /\ ures' = <<compare_instructions(ul, ur)>>
    /\ upc' = "done"
    /\ UNCHANGED <<ul, ur, uiter>>
    /\ UNCHANGED <<kvars, mvars, cvars, gvars, dvars, jvars, xvars>>

NextInstructions == CompareInstructions

SpecInstructions == InitInstructions /\ [][NextInstructions]_vars

\* how often the byte-string b is in the stream
CountBytes(stream, b) == Cardinality({k \in 1..Len(stream) : stream[k] = b})

\* the sum of f over a finite set
RECURSIVE SumOver(_, _)
SumOver(S, f) ==
    IF S = {} THEN 0
    ELSE LET x == CHOOSE y \in S : TRUE IN f[x] + SumOver(S \ {x}, f)

\* the bag-Jaccard index of two streams of byte-strings, 1.0 when both are empty
BagJaccard(l, r) ==
    LET keys == {l[k] : k \in 1..Len(l)} \cup {r[k] : k \in 1..Len(r)}
        least == [b \in keys |-> Min(CountBytes(l, b), CountBytes(r, b))]
        most == [b \in keys |-> CountBytes(l, b) + CountBytes(r, b) - least[b]]
    IN IF SumOver(keys, most) = 0 THEN One
       ELSE Rat(SumOver(keys, least), SumOver(keys, most))

\* C16: compare_instructions(L, R) is the bag-Jaccard index of the two
\* instruction streams keyed on instruction bytes, 1.0 when both streams are
\* empty, and the same value as compare_instructions(R, L), for streams of equal
\* length too
C16_BagJaccard ==
    upc = "done" =>
        /\ ures[1] = BagJaccard(StreamerBytes(ul), StreamerBytes(ur))
        /\ ures[1] = compare_instructions(ur, ul)
        /\ (StreamerBytes(ul) = <<>> /\ StreamerBytes(ur) = <<>>) => ures[1] = One

\* two different streams of equal length that share an instruction, a repeated
\* byte-string on one side
C16_Witness ==
    /\ upc = "done"
    /\ StreamerLen(ul) = StreamerLen(ur)
    /\ StreamerBytes(ul) = <<"A", "B", "B", "B">>
    /\ StreamerBytes(ur) = <<"A", "A", "B", "A">>
    /\ ures[1] = Rat(2, 6)

-----------------------------------------------------------------------------
(* SpecBlocks: compare_blocks on a block of one graph and a block of another *)

\* Decoder functions with joins, forks and loops: a diamond closed by a back
\* edge, and two blocks with a self loop.
FnDiamond ==
    [blocks |-> << <<"A">>, <<"A", "B">>, <<"B">>, <<"A", "A">> >>,
     blockrefs |-> (1 :> <<2, 3>>) @@ (2 :> <<4>>) @@ (3 :> <<4>>) @@ (4 :> <<1>>)]
FnLoop ==
    [blocks |-> << <<"A", "B">>, <<"B", "B">> >>,
     blockrefs |-> (1 :> <<1, 2>>) @@ (2 :> <<1>>)]

BlockGraphs == {GraphOf("", 0, f) : f \in {FnA, FnAB, FnChain, FnDiamond, FnLoop}}

\* the arguments of compare_blocks: the blocks of a graph and an index into them
BlockArgs ==
    UNION {{[blocks |-> g.blocks, index |-> i] : i \in 1..Len(g.blocks)} : g \in BlockGraphs}

InitBlocks ==
    /\ upc = "blocks"
    /\ ul \in BlockArgs
    /\ ur \in BlockArgs
    /\ uiter = None
    /\ ures = <<>>
    /\ IdleK /\ IdleM /\ IdleC /\ IdleG /\ IdleD /\ IdleJ /\ IdleX

CompareBlocks ==
    /\ upc = "blocks"
    /\ ures' = <<compare_blocks(ul.blocks, ul.index, ur.blocks, ur.index)>>
    /\ upc' = "scored"
    /\ UNCHANGED <<ul, ur, uiter>>
    /\ UNCHANGED <<kvars, mvars, cvars, gvars, dvars, jvars, xvars>>

NextBlocks == CompareBlocks

SpecBlocks == InitBlocks /\ [][NextBlocks]_vars

\* the instructions of the blocks of `blocks` that `refs` lists
InstructionsOf(blocks, refs) ==
    ListedInstructions(InstructionStreamer_new(blocks, refs), 1)

\* (2 * local + prev + next) / 4 of three fractions
Weighted(local, prev, next) ==
    Rat(2 * local.n * prev.d * next.d + prev.n * local.d * next.d
            + next.n * local.d * prev.d,
        4 * local.d * prev.d * next.d)

\* C19: compare_blocks(L, i, R, j) is (2 * local + prev + next) / 4, local being
\* 1.0 on equal block hashes and else the bag-Jaccard of the two blocks' own
\* instructions, prev the bag-Jaccard of the instructions of L[i]'s in_refs blocks
\* against those of R[j]'s in_refs blocks, next the same over out_refs; a term is
\* 1.0 when both blocks have no predecessors, or no successors
C19_WeightedMean ==
    upc = "scored" =>
        LET l == ul.blocks[ul.index]
            r == ur.blocks[ur.index]
            local == IF l.hash = r.hash THEN One
                     ELSE BagJaccard(l.instructions, r.instructions)
            prev == BagJaccard(InstructionsOf(ul.blocks, l.in_refs),
                               InstructionsOf(ur.blocks, r.in_refs))
            next == BagJaccard(InstructionsOf(ul.blocks, l.out_refs),
                               InstructionsOf(ur.blocks, r.out_refs))
        IN /\ ures[1] = Weighted(local, prev, next)
           /\ (l.in_refs = <<>> /\ r.in_refs = <<>>) => prev = One
           /\ (l.out_refs = <<>> /\ r.out_refs = <<>>) => next = One

\* the join of the diamond, with two predecessors and one successor, against the
\* second block of the chain, with one predecessor and no successor:
\* local = 0 (A, A against B), prev = 1/3 (A, B, B against A), next = 0
C19_Witness ==
    /\ upc = "scored"
    /\ ul.blocks[ul.index].in_refs = <<2, 3>>
    /\ ul.blocks[ul.index].instructions = <<"A", "A">>
    /\ ur.blocks[ur.index].in_refs = <<1>>
    /\ ur.blocks[ur.index].out_refs = <<>>
    /\ ur.blocks[ur.index].instructions = <<"B">>
    /\ ures[1] = Rat(1, 12)

====
